---------------------------- MODULE Spec2Model ----------------------------
(***************************************************************************)
(* Split calculation and validation engine of StellarSplit                 *)
(* (SplitCalculationService + SplitValidator).                             *)
(*                                                                         *)
(* Money is an integer number of mills (1/1000 of a currency unit), so one *)
(* cent is 10 mills and the validator's 0.01 tolerance is 10 mills.        *)
(* Percentages are integers in 1/1000 of a percent.  Quotients that the    *)
(* code forms before rounding are kept exact as a numerator and a          *)
(* denominator; binary floating-point drift is not part of the model.      *)
(* An optional field of the DTO is <<>> when it is undefined and <<v>>     *)
(* when it carries the value v.                                            *)
(***************************************************************************)
EXTENDS Integers, Sequences, FiniteSets, TLC

VARIABLES dto, pc, shares, roundingAdjustment, finalTotal, result, error

\* ParticipantsService: the saved participants and the call that was served
\* last
VARIABLES participantRepository, lastCall

\* MultiCurrencyService: the saved payments and the calls in progress
VARIABLES paymentRepository, multiCurrencyPaymentRepository, calls

vars == <<dto, pc, shares, roundingAdjustment, finalTotal, result, error>>

participantVars == <<participantRepository, lastCall>>

paymentVars == <<paymentRepository, multiCurrencyPaymentRepository, calls>>

allVars == <<vars, participantVars, paymentVars>>

-----------------------------------------------------------------------------
(* Bounds of the model *)

\* longest participantIds list of a request
MaxParticipants == 3
\* largest subtotal / tax / tip of the enumerated requests, in half cents
MaxAmount == 6
\* longest percentages / customAmounts payload of the coverage requests
MaxEntries == 3
\* most participants the repository comes to hold
MaxSaved == 2
\* calls of processMultiCurrencyPayment that are started
MaxCalls == 2

-----------------------------------------------------------------------------
(* Units *)

\* one cent, in mills
Cent == 10
\* 100 percent, in 1/1000 percent
Hundred == 100000

None == <<>>
Some(v) == <<v>>
Has(o) == o # <<>>
\* `x || 0` on an optional number
OrZero(o) == IF o = <<>> THEN 0 ELSE o[1]
\* `x || []` on an optional array
OrEmpty(o) == IF o = <<>> THEN <<>> ELSE o[1]

Abs(x) == IF x < 0 THEN 0 - x ELSE x

EQUAL == "equal"
ITEMIZED == "itemized"
PERCENTAGE == "percentage"
CUSTOM == "custom"
PROPORTIONAL == "proportional"

SplitType == {EQUAL, ITEMIZED, PERCENTAGE, CUSTOM}
TipDistributionType == {EQUAL, PROPORTIONAL}

Range(s) == {s[i] : i \in DOMAIN s}
HasDuplicates(s) == Cardinality(Range(s)) # Len(s)

RECURSIVE SumSeq(_)
SumSeq(s) == IF s = <<>> THEN 0 ELSE s[1] + SumSeq(Tail(s))

RECURSIVE Fact(_)
Fact(n) == IF n <= 1 THEN 1 ELSE n * Fact(n - 1)

\* String.prototype.trim on a name kept as a sequence of characters
RECURSIVE TrimLeft(_)
TrimLeft(s) == IF s # <<>> /\ s[1] = " " THEN TrimLeft(Tail(s)) ELSE s
RECURSIVE TrimRight(_)
TrimRight(s) ==
    IF s # <<>> /\ s[Len(s)] = " " THEN TrimRight(SubSeq(s, 1, Len(s) - 1)) ELSE s
trim(s) == TrimRight(TrimLeft(s))

-----------------------------------------------------------------------------
(* SplitCalculationService: rounding and the distribution helpers *)

\* The half-up rounding of Math.round, to whole cents, of the value num/den
\* mills (den > 0): Math.round(v * 100) / 100 = floor(v * 100 + 1/2) / 100.
round(num, den) == Cent * ((2 * num + Cent * den) \div (2 * Cent * den))

\* distributeTax that cuts the share of the tax down to whole cents.
distributeTax_Truncated(participantSubtotal, totalSubtotal, totalTax) ==
    IF totalTax = 0 \/ totalSubtotal = 0
    THEN 0
    ELSE Cent * ((totalTax * participantSubtotal) \div (Cent * totalSubtotal))

distributeTax(participantSubtotal, totalSubtotal, totalTax) ==
    IF totalTax = 0 \/ totalSubtotal = 0
    THEN 0
    ELSE round(totalTax * participantSubtotal, totalSubtotal)

\* distributeTip that ignores the mode and always distributes by subtotal.
distributeTip_AlwaysProportional(participantSubtotal, totalSubtotal, totalTip, distribution, participantCount) ==
    IF totalTip = 0 THEN 0
    ELSE IF totalSubtotal = 0 THEN round(totalTip, participantCount)
    ELSE round(totalTip * participantSubtotal, totalSubtotal)

distributeTip(participantSubtotal, totalSubtotal, totalTip, distribution, participantCount) ==
    IF totalTip = 0 THEN 0
    ELSE IF distribution = EQUAL THEN round(totalTip, participantCount)
    ELSE IF totalSubtotal = 0 THEN round(totalTip, participantCount)
    ELSE round(totalTip * participantSubtotal, totalSubtotal)

\* TipMode whose default is Equal for every strategy.
TipMode_DefaultEqual(d, fallback) == IF Has(d.tipDistribution) THEN d.tipDistribution[1] ELSE EQUAL

\* `dto.tipDistribution || fallback`
TipMode(d, fallback) == IF Has(d.tipDistribution) THEN d.tipDistribution[1] ELSE fallback

\* BuildShare with a total that leaves the tip out.
BuildShare_TotalWithoutTip(d, participantId, subtotal, fallback, items) ==
    LET tax == distributeTax(subtotal, d.subtotal, OrZero(d.tax))
        tip == distributeTip(subtotal, d.subtotal, OrZero(d.tip),
                             TipMode(d, fallback), Len(d.participantIds))
    IN [participantId |-> participantId,
        subtotal |-> subtotal,
        tax |-> tax,
        tip |-> tip,
        total |-> round(subtotal + tax, 1),
        items |-> items]

\* BuildShare that does not round the tax.
BuildShare_UnroundedTax(d, participantId, subtotal, fallback, items) ==
    LET tax == IF OrZero(d.tax) = 0 \/ d.subtotal = 0
               THEN 0
               ELSE (OrZero(d.tax) * subtotal) \div d.subtotal
        tip == distributeTip(subtotal, d.subtotal, OrZero(d.tip),
                             TipMode(d, fallback), Len(d.participantIds))
    IN [participantId |-> participantId,
        subtotal |-> subtotal,
        tax |-> tax,
        tip |-> tip,
        total |-> round(subtotal + tax + tip, 1),
        items |-> items]

\* The share built at the end of every strategy from a rounded subtotal.
BuildShare(d, participantId, subtotal, fallback, items) ==
    LET tax == distributeTax(subtotal, d.subtotal, OrZero(d.tax))
        tip == distributeTip(subtotal, d.subtotal, OrZero(d.tip),
                             TipMode(d, fallback), Len(d.participantIds))
    IN [participantId |-> participantId,
        subtotal |-> subtotal,
        tax |-> tax,
        tip |-> tip,
        total |-> round(subtotal + tax + tip, 1),
        items |-> items]

\* calculateEqualSplit that cuts subtotal / participantCount down to whole
\* cents.
calculateEqualSplit_Truncated(d) ==
    LET participantCount == Len(d.participantIds)
    IN [i \in 1..participantCount |->
          BuildShare(d, d.participantIds[i],
                     Cent * (d.subtotal \div (Cent * participantCount)),
                     EQUAL, None)]

calculateEqualSplit(d) ==
    LET participantCount == Len(d.participantIds)
    IN [i \in 1..participantCount |->
          BuildShare(d, d.participantIds[i], round(d.subtotal, participantCount),
                     EQUAL, None)]

\* The names of the items a participant is assigned to, in item order.
RECURSIVE participantItems(_, _)
participantItems(items, id) ==
    IF items = <<>> THEN <<>>
    ELSE LET times == Cardinality({k \in DOMAIN items[1].participantIds :
                                     items[1].participantIds[k] = id})
         IN [k \in 1..times |-> items[1].name] \o participantItems(Tail(items), id)

\* participantSubtotals that charges every assigned participant the full
\* price of the item.
participantSubtotals_FullPrice(items, id, den) ==
    SumSeq([k \in DOMAIN items |->
              IF id \in Range(items[k].participantIds) THEN items[k].price * den ELSE 0])

\* The running subtotal of a participant, as a numerator over the common
\* denominator den: the sum of price / |participantIds| over the item
\* occurrences of that participant.
RECURSIVE participantSubtotals(_, _, _)
participantSubtotals(items, id, den) ==
    IF items = <<>> THEN 0
    ELSE LET times == Cardinality({k \in DOMAIN items[1].participantIds :
                                     items[1].participantIds[k] = id})
         IN times * items[1].price * (den \div Len(items[1].participantIds))
            + participantSubtotals(Tail(items), id, den)

calculateItemizedSplit(d) ==
    LET items == OrEmpty(d.items)
        den == Fact(Len(d.participantIds))
    IN [i \in 1..Len(d.participantIds) |->
          BuildShare(d, d.participantIds[i],
                     round(participantSubtotals(items, d.participantIds[i], den), den),
                     PROPORTIONAL,
                     Some(participantItems(items, d.participantIds[i])))]

\* Map.get after the forEach of Map.set: the last entry of the participant,
\* or 0 when there is none (`map.get(id) || 0`).
RECURSIVE MapGet(_, _, _)
MapGet(entries, id, field) ==
    IF entries = <<>> THEN 0
    ELSE IF entries[Len(entries)].participantId = id THEN entries[Len(entries)][field]
    ELSE MapGet(SubSeq(entries, 1, Len(entries) - 1), id, field)

\* calculatePercentageSplit that cuts subtotal * percentage / 100 down to
\* whole cents.
calculatePercentageSplit_Truncated(d) ==
    LET percentages == OrEmpty(d.percentages)
    IN [i \in 1..Len(d.participantIds) |->
          BuildShare(d, d.participantIds[i],
                     Cent * ((d.subtotal * MapGet(percentages, d.participantIds[i], "percentage"))
                             \div (Cent * Hundred)),
                     PROPORTIONAL, None)]

\* calculatePercentageSplit that builds one share per percentage entry, in
\* the order of the entries.
calculatePercentageSplit_EntryOrder(d) ==
    LET percentages == OrEmpty(d.percentages)
    IN [k \in 1..Len(percentages) |->
          BuildShare(d, percentages[k].participantId,
                     round(d.subtotal * percentages[k].percentage, Hundred),
                     PROPORTIONAL, None)]

calculatePercentageSplit(d) ==
    LET percentages == OrEmpty(d.percentages)
    IN [i \in 1..Len(d.participantIds) |->
          BuildShare(d, d.participantIds[i],
                     round(d.subtotal * MapGet(percentages, d.participantIds[i], "percentage"),
                           Hundred),
                     PROPORTIONAL, None)]

\* calculateCustomSplit that takes the custom amount as it is.
calculateCustomSplit_Unrounded(d) ==
    LET customAmounts == OrEmpty(d.customAmounts)
    IN [i \in 1..Len(d.participantIds) |->
          BuildShare(d, d.participantIds[i],
                     MapGet(customAmounts, d.participantIds[i], "amount"),
                     PROPORTIONAL, None)]

calculateCustomSplit(d) ==
    LET customAmounts == OrEmpty(d.customAmounts)
    IN [i \in 1..Len(d.participantIds) |->
          BuildShare(d, d.participantIds[i],
                     round(MapGet(customAmounts, d.participantIds[i], "amount"), 1),
                     PROPORTIONAL, None)]

\* shares.reduce((sum, share) => sum + share.total, 0)
SumTotals(s) == SumSeq([i \in DOMAIN s |-> s[i].total])

\* The forEach that looks for the largest total: a later share replaces the
\* current maximum only when its total is strictly larger.
RECURSIVE MaxIndexFrom(_, _, _)
MaxIndexFrom(s, index, maxIndex) ==
    IF index > Len(s) THEN maxIndex
    ELSE IF s[index].total > s[maxIndex].total
         THEN MaxIndexFrom(s, index + 1, index)
         ELSE MaxIndexFrom(s, index + 1, maxIndex)

\* MaxIndex whose scan lets a later share of the same total replace the
\* current maximum.
MaxIndex_LastOnTies(s) ==
    CHOOSE i \in DOMAIN s :
        /\ \A j \in DOMAIN s : s[j].total <= s[i].total
        /\ \A j \in (i + 1)..Len(s) : s[j].total < s[i].total

\* MaxIndex that always picks the first participant.
MaxIndex_First(s) == 1

MaxIndex(s) == MaxIndexFrom(s, 1, 1)

\* applyRoundingAdjustment that returns the shares as they are.
applyRoundingAdjustment_NoOp(s, adjustment) == s

applyRoundingAdjustment(s, adjustment) ==
    IF Len(s) = 0 \/ Abs(adjustment) < 1
    THEN s
    ELSE [s EXCEPT ![MaxIndex(s)].total = round(s[MaxIndex(s)].total - adjustment, 1)]

expectedTotal(d) == d.subtotal + OrZero(d.tax) + OrZero(d.tip)

-----------------------------------------------------------------------------
(* SplitValidator.  Every check is the message of the exception it throws, *)
(* without the interpolated values; Ok means that nothing was thrown.      *)

Ok == "ok"
\* the 0.01 tolerance of the sum checks, in mills (or in 1/1000 percent)
Tolerance == 10

NoParticipants == "At least one participant is required"
DuplicateParticipants == "Duplicate participant IDs are not allowed"
NegativeSubtotal == "Subtotal cannot be negative"
NegativeTax == "Tax cannot be negative"
NegativeTip == "Tip cannot be negative"
TotalNotPositive == "Total amount must be greater than zero"
EqualExtraPayload == "Equal split should not include items, percentages, or custom amounts"
ItemsRequired == "Itemized split requires at least one item"
ItemizedExtraPayload == "Itemized split should not include percentages or custom amounts"
ItemNameRequired == "Item must have a name"
ItemInvalidPrice == "Item has invalid price"
ItemNoParticipants == "Item must have at least one participant"
ItemForeignParticipant == "Item has participant who is not in the main participant list"
ItemDuplicateParticipants == "Item has duplicate participants"
ItemsSumMismatch == "Sum of item prices does not match subtotal"
PercentagesRequired == "Percentage split requires percentage configuration"
PercentageExtraPayload == "Percentage split should not include items or custom amounts"
PercentageForeignParticipant == "Percentage split includes participant who is not in the main participant list"
PercentageDuplicate == "Duplicate percentage entry for participant"
PercentageOutOfRange == "Invalid percentage. Must be between 0 and 100"
PercentageSumMismatch == "Total percentage must equal 100%"
PercentageMissing == "Participant is missing a percentage assignment"
CustomRequired == "Custom split requires custom amount configuration"
CustomExtraPayload == "Custom split should not include items or percentages"
CustomForeignParticipant == "Custom split includes participant who is not in the main participant list"
CustomDuplicate == "Duplicate custom amount entry for participant"
CustomNegative == "Invalid amount. Must be non-negative"
CustomSumMismatch == "Sum of custom amounts does not match subtotal"
CustomMissing == "Participant is missing a custom amount assignment"
InvalidSplitType == "Invalid split type"
TotalMismatch == "Calculated total does not match expected total"
AdjustmentTooLarge == "Rounding adjustment exceeds reasonable threshold"

\* validateBasicRequirements without the duplicate check.
validateBasicRequirements_NoDuplicateCheck(d) ==
    IF Len(d.participantIds) = 0 THEN NoParticipants
    ELSE IF d.subtotal < 0 THEN NegativeSubtotal
    ELSE IF Has(d.tax) /\ d.tax[1] < 0 THEN NegativeTax
    ELSE IF Has(d.tip) /\ d.tip[1] < 0 THEN NegativeTip
    ELSE IF expectedTotal(d) <= 0 /\ Len(d.participantIds) > 0 THEN TotalNotPositive
    ELSE Ok

\* validateBasicRequirements that wants a positive subtotal.
validateBasicRequirements_PositiveSubtotal(d) ==
    IF Len(d.participantIds) = 0 THEN NoParticipants
    ELSE IF HasDuplicates(d.participantIds) THEN DuplicateParticipants
    ELSE IF d.subtotal <= 0 THEN NegativeSubtotal
    ELSE IF Has(d.tax) /\ d.tax[1] < 0 THEN NegativeTax
    ELSE IF Has(d.tip) /\ d.tip[1] < 0 THEN NegativeTip
    ELSE IF expectedTotal(d) <= 0 /\ Len(d.participantIds) > 0 THEN TotalNotPositive
    ELSE Ok

validateBasicRequirements(d) ==
    IF Len(d.participantIds) = 0 THEN NoParticipants
    ELSE IF HasDuplicates(d.participantIds) THEN DuplicateParticipants
    ELSE IF d.subtotal < 0 THEN NegativeSubtotal
    ELSE IF Has(d.tax) /\ d.tax[1] < 0 THEN NegativeTax
    ELSE IF Has(d.tip) /\ d.tip[1] < 0 THEN NegativeTip
    ELSE IF expectedTotal(d) <= 0 /\ Len(d.participantIds) > 0 THEN TotalNotPositive
    ELSE Ok

\* validateEqualSplit that looks at the items only.
validateEqualSplit_ItemsOnly(d) ==
    IF Has(d.items) THEN EqualExtraPayload ELSE Ok

validateEqualSplit(d) ==
    IF Has(d.items) \/ Has(d.percentages) \/ Has(d.customAmounts)
    THEN EqualExtraPayload
    ELSE Ok

\* validateItem without the trim of the name.
validateItem_NoTrim(d, item) ==
    IF item.name = <<>> THEN ItemNameRequired
    ELSE IF item.price < 0 THEN ItemInvalidPrice
    ELSE IF Len(item.participantIds) = 0 THEN ItemNoParticipants
    ELSE IF \E k \in DOMAIN item.participantIds :
               item.participantIds[k] \notin Range(d.participantIds)
         THEN ItemForeignParticipant
    ELSE IF HasDuplicates(item.participantIds) THEN ItemDuplicateParticipants
    ELSE Ok

\* The checks of one item, in the order of the forEach body.
validateItem(d, item) ==
    IF item.name = <<>> \/ trim(item.name) = <<>> THEN ItemNameRequired
    ELSE IF item.price < 0 THEN ItemInvalidPrice
    ELSE IF Len(item.participantIds) = 0 THEN ItemNoParticipants
    ELSE IF \E k \in DOMAIN item.participantIds :
               item.participantIds[k] \notin Range(d.participantIds)
         THEN ItemForeignParticipant
    ELSE IF HasDuplicates(item.participantIds) THEN ItemDuplicateParticipants
    ELSE Ok

\* The first exception thrown by the forEach over the items.
RECURSIVE validateItems(_, _)
validateItems(d, items) ==
    IF items = <<>> THEN Ok
    ELSE IF validateItem(d, items[1]) # Ok THEN validateItem(d, items[1])
    ELSE validateItems(d, Tail(items))

validateItemizedSplit(d) ==
    IF ~Has(d.items) \/ Len(d.items[1]) = 0 THEN ItemsRequired
    ELSE IF Has(d.percentages) \/ Has(d.customAmounts) THEN ItemizedExtraPayload
    ELSE IF validateItems(d, d.items[1]) # Ok THEN validateItems(d, d.items[1])
    ELSE IF Abs(SumSeq([i \in DOMAIN d.items[1] |-> d.items[1][i].price]) - d.subtotal)
              > Tolerance
         THEN ItemsSumMismatch
    ELSE Ok

\* The forEach over the percentage entries; seen is the key set of
\* percentageMap when the entry is reached.
RECURSIVE validatePercentageEntries(_, _, _)
validatePercentageEntries(d, entries, seen) ==
    IF entries = <<>> THEN Ok
    ELSE IF entries[1].participantId \notin Range(d.participantIds)
         THEN PercentageForeignParticipant
    ELSE IF entries[1].participantId \in seen THEN PercentageDuplicate
    ELSE IF entries[1].percentage < 0 \/ entries[1].percentage > Hundred
         THEN PercentageOutOfRange
    ELSE validatePercentageEntries(d, Tail(entries), seen \cup {entries[1].participantId})

\* validatePercentageSplit that rejects a sum at the tolerance itself.
validatePercentageSplit_StrictTolerance(d) ==
    IF ~Has(d.percentages) \/ Len(d.percentages[1]) = 0 THEN PercentagesRequired
    ELSE IF Has(d.items) \/ Has(d.customAmounts) THEN PercentageExtraPayload
    ELSE IF validatePercentageEntries(d, d.percentages[1], {}) # Ok
         THEN validatePercentageEntries(d, d.percentages[1], {})
    ELSE IF Abs(SumSeq([i \in DOMAIN d.percentages[1] |-> d.percentages[1][i].percentage])
                - Hundred) >= Tolerance
         THEN PercentageSumMismatch
    ELSE IF \E i \in DOMAIN d.participantIds :
               \A k \in DOMAIN d.percentages[1] :
                  d.percentages[1][k].participantId # d.participantIds[i]
         THEN PercentageMissing
    ELSE Ok

validatePercentageSplit(d) ==
    IF ~Has(d.percentages) \/ Len(d.percentages[1]) = 0 THEN PercentagesRequired
    ELSE IF Has(d.items) \/ Has(d.customAmounts) THEN PercentageExtraPayload
    ELSE IF validatePercentageEntries(d, d.percentages[1], {}) # Ok
         THEN validatePercentageEntries(d, d.percentages[1], {})
    ELSE IF Abs(SumSeq([i \in DOMAIN d.percentages[1] |-> d.percentages[1][i].percentage])
                - Hundred) > Tolerance
         THEN PercentageSumMismatch
    ELSE IF \E i \in DOMAIN d.participantIds :
               \A k \in DOMAIN d.percentages[1] :
                  d.percentages[1][k].participantId # d.participantIds[i]
         THEN PercentageMissing
    ELSE Ok

\* validateCustomEntries without the duplicate check.
RECURSIVE validateCustomEntries_NoDuplicateCheck(_, _, _)
validateCustomEntries_NoDuplicateCheck(d, entries, seen) ==
    IF entries = <<>> THEN Ok
    ELSE IF entries[1].participantId \notin Range(d.participantIds)
         THEN CustomForeignParticipant
    ELSE IF entries[1].amount < 0 THEN CustomNegative
    ELSE validateCustomEntries_NoDuplicateCheck(d, Tail(entries),
                                                seen \cup {entries[1].participantId})

RECURSIVE validateCustomEntries(_, _, _)
validateCustomEntries(d, entries, seen) ==
    IF entries = <<>> THEN Ok
    ELSE IF entries[1].participantId \notin Range(d.participantIds)
         THEN CustomForeignParticipant
    ELSE IF entries[1].participantId \in seen THEN CustomDuplicate
    ELSE IF entries[1].amount < 0 THEN CustomNegative
    ELSE validateCustomEntries(d, Tail(entries), seen \cup {entries[1].participantId})

validateCustomSplit(d) ==
    IF ~Has(d.customAmounts) \/ Len(d.customAmounts[1]) = 0 THEN CustomRequired
    ELSE IF Has(d.items) \/ Has(d.percentages) THEN CustomExtraPayload
    ELSE IF validateCustomEntries(d, d.customAmounts[1], {}) # Ok
         THEN validateCustomEntries(d, d.customAmounts[1], {})
    ELSE IF Abs(SumSeq([i \in DOMAIN d.customAmounts[1] |-> d.customAmounts[1][i].amount])
                - d.subtotal) > Tolerance
         THEN CustomSumMismatch
    ELSE IF \E i \in DOMAIN d.participantIds :
               \A k \in DOMAIN d.customAmounts[1] :
                  d.customAmounts[1][k].participantId # d.participantIds[i]
         THEN CustomMissing
    ELSE Ok

validateSplitType(d) ==
    CASE d.splitType = EQUAL -> validateEqualSplit(d)
      [] d.splitType = ITEMIZED -> validateItemizedSplit(d)
      [] d.splitType = PERCENTAGE -> validatePercentageSplit(d)
      [] d.splitType = CUSTOM -> validateCustomSplit(d)
      [] OTHER -> InvalidSplitType

validate(d) ==
    IF validateBasicRequirements(d) # Ok
    THEN validateBasicRequirements(d)
    ELSE validateSplitType(d)

\* validateResult without the bound on the rounding adjustment.
validateResult_NoAdjustmentCheck(d, calculatedTotal, adjustment) ==
    IF Abs(calculatedTotal - expectedTotal(d)) > Tolerance THEN TotalMismatch
    ELSE Ok

validateResult(d, calculatedTotal, adjustment) ==
    IF Abs(calculatedTotal - expectedTotal(d)) > Tolerance THEN TotalMismatch
    ELSE IF Abs(adjustment) > Len(d.participantIds) * Cent THEN AdjustmentTooLarge
    ELSE Ok

-----------------------------------------------------------------------------
(* The requests of the model *)

Ids == <<"u1", "u2", "u3", "u4", "u5">>
Prefix(n) == [i \in 1..n |-> Ids[i]]
IdSet(n) == {Ids[i] : i \in 1..n}
SeqsUpTo(S, n) == UNION {[1..k -> S] : k \in 0..n}

Request(splitType, subtotal, tax, tip, mode, participantIds, items, percentages, customAmounts) ==
    [splitType |-> splitType, subtotal |-> subtotal, tax |-> tax, tip |-> tip,
     tipDistribution |-> mode, participantIds |-> participantIds,
     items |-> items, percentages |-> percentages, customAmounts |-> customAmounts]

Item(name, price, participantIds) ==
    [name |-> name, price |-> price, participantIds |-> participantIds]
Pct(participantId, percentage) ==
    [participantId |-> participantId, percentage |-> percentage]
Custom(participantId, amount) ==
    [participantId |-> participantId, amount |-> amount]

\* amounts in mills, in steps of half a cent
AmountVals == {5 * k : k \in 0..MaxAmount}
OptAmounts == {None} \cup {Some(a) : a \in AmountVals \cup {-10}}
OptTipDistribution == {None, Some(EQUAL), Some(PROPORTIONAL)}
\* tax, tip and tip mode of the requests that carry a payload
TaxTipModes ==
    {<<None, None, None>>, <<Some(10), None, None>>, <<None, Some(15), None>>,
     <<Some(10), Some(15), None>>, <<Some(10), Some(15), Some(EQUAL)>>,
     <<Some(5), Some(20), Some(PROPORTIONAL)>>}

\* The payload a well-formed client sends for its participant list: the
\* first participant carries the whole subtotal.
OwnItems(ids, subtotal) ==
    IF ids = <<>> THEN Some(<<>>) ELSE Some(<<Item(<<"A">>, subtotal, ids)>>)
OwnPercentages(ids) ==
    Some([i \in DOMAIN ids |-> Pct(ids[i], IF i = 1 THEN Hundred ELSE 0)])
OwnCustomAmounts(ids, subtotal) ==
    Some([i \in DOMAIN ids |-> Custom(ids[i], IF i = 1 THEN subtotal ELSE 0)])

\* The non-empty sublists of a participant list, in its order.
SubLists(ids) ==
    {SelectSeq(ids, LAMBDA id : id \in S) : S \in (SUBSET Range(ids)) \ {{}}}

\* Each family of requests is a predicate on the request d.

\* Equal requests over every amount, negative ones included.
EqualRequests(d) ==
    \E subtotal \in AmountVals \cup {-10}, tax \in OptAmounts, tip \in OptAmounts,
       mode \in OptTipDistribution, n \in 1..MaxParticipants :
        d = Request(EQUAL, subtotal, tax, tip, mode, Prefix(n), None, None, None)

\* Every participant list, empty and duplicated ones included, under every
\* split type.
ParticipantRequests(d) ==
    \E type \in SplitType, ids \in SeqsUpTo(IdSet(MaxParticipants), MaxParticipants) :
        d = Request(type, 20, None, None, None, ids,
                    IF type = ITEMIZED THEN OwnItems(ids, 20) ELSE None,
                    IF type = PERCENTAGE THEN OwnPercentages(ids) ELSE None,
                    IF type = CUSTOM THEN OwnCustomAmounts(ids, 20) ELSE None)

\* Every combination of absent, empty and well-formed payloads under every
\* split type.
ExclusivityRequests(d) ==
    \E type \in SplitType,
       items \in {None, Some(<<>>), OwnItems(Prefix(2), 20)},
       percentages \in {None, Some(<<>>), OwnPercentages(Prefix(2))},
       customAmounts \in {None, Some(<<>>), OwnCustomAmounts(Prefix(2), 20)} :
        d = Request(type, 20, Some(10), None, None, Prefix(2),
                    items, percentages, customAmounts)

\* Percentage payloads with missing, foreign and duplicated entries.
PercentageCoverageRequests(d) ==
    \E entries \in SeqsUpTo({Pct(id, p) : id \in IdSet(3), p \in {0, 50000, Hundred}},
                            MaxEntries) :
        d = Request(PERCENTAGE, 20, Some(10), None, None, Prefix(2), None,
                    Some(entries), None)

\* Percentage payloads around the bounds of the range and of the tolerance.
PercentageToleranceRequests(d) ==
    \E subtotal \in {20, 10000},
       p1 \in {-1, 0, 49994, 49995, 50000, 50005, 50006, Hundred, Hundred + 1},
       p2 \in {-1, 0, 49994, 49995, 50000, 50005, 50006, Hundred, Hundred + 1} :
        d = Request(PERCENTAGE, subtotal, Some(10), None, None, Prefix(2), None,
                    Some(<<Pct("u1", p1), Pct("u2", p2)>>), None)

\* Percentage payloads with one entry per participant.
PercentageRequests(d) ==
    \E subtotal \in AmountVals, m \in TaxTipModes, n \in 1..MaxParticipants :
        \E p \in [1..n -> {0, 33330, 33340, 50000, Hundred}] :
            d = Request(PERCENTAGE, subtotal, m[1], m[2], m[3], Prefix(n), None,
                        Some([i \in 1..n |-> Pct(Ids[i], p[i])]), None)

\* Custom payloads with missing, foreign and duplicated entries.
CustomCoverageRequests(d) ==
    \E entries \in SeqsUpTo({Custom(id, a) : id \in IdSet(3), a \in {0, 10, 20}},
                            MaxEntries) :
        d = Request(CUSTOM, 20, Some(10), None, None, Prefix(2), None, None,
                    Some(entries))

\* Custom payloads around the bounds of the tolerance.
CustomToleranceRequests(d) ==
    \E m \in TaxTipModes,
       a1 \in {-1, 0, 4, 5, 10, 15, 16, 20}, a2 \in {-1, 0, 4, 5, 10, 15, 16, 20} :
        d = Request(CUSTOM, 20, m[1], m[2], m[3], Prefix(2), None, None,
                    Some(<<Custom("u1", a1), Custom("u2", a2)>>))

\* Custom payloads with one entry per participant.
CustomRequests(d) ==
    \E subtotal \in AmountVals, m \in TaxTipModes, n \in 1..MaxParticipants :
        \E a \in [1..n -> {0, 5, 10, 20}] :
            d = Request(CUSTOM, subtotal, m[1], m[2], m[3], Prefix(n), None, None,
                        Some([i \in 1..n |-> Custom(Ids[i], a[i])]))

\* One or two well-formed items over the participants.
ItemizedRequests(d) ==
    \E subtotal \in AmountVals,
       m \in {<<None, None, None>>, <<Some(10), Some(15), None>>,
              <<Some(10), Some(15), Some(EQUAL)>>},
       n \in 1..MaxParticipants :
        \E p1 \in {5, 10}, s1 \in SubLists(Prefix(n)),
           p2 \in {0, 5, 10}, s2 \in SubLists(Prefix(n)) :
            d = Request(ITEMIZED, subtotal, m[1], m[2], m[3], Prefix(n),
                        Some(IF p2 = 0
                             THEN <<Item(<<"A">>, p1, s1)>>
                             ELSE <<Item(<<"A">>, p1, s1), Item(<<"B">>, p2, s2)>>),
                        None, None)

\* Items with a missing or blank name, a negative price, or an empty,
\* foreign or duplicated participant list, alone or after a well-formed item.
ItemShapeRequests(d) ==
    \E name \in {<<>>, <<" ">>, <<"B">>, <<" ", "B">>},
       price \in {-10, 10, 20},
       ids \in SeqsUpTo(IdSet(3), 2),
       alone \in BOOLEAN :
        d = Request(ITEMIZED, 20, Some(10), None, None, Prefix(2),
                    Some(IF alone
                         THEN <<Item(name, price, ids)>>
                         ELSE <<Item(<<"A">>, 20 - price, Prefix(2)),
                                Item(name, price, ids)>>),
                    None, None)

\* The scenarios of the service's test suite, in mills (the percentage
\* scenarios on a tenth of the amounts, to stay within 32-bit products).
ScenarioRequests(d) ==
    d \in
    {Request(EQUAL, 100000, Some(10000), Some(15000), None, Prefix(2), None, None, None),
     Request(EQUAL, 100000, Some(0), Some(0), None, Prefix(3), None, None, None),
     Request(EQUAL, 30, Some(0), Some(0), None, Prefix(2), None, None, None),
     Request(ITEMIZED, 50000, Some(5000), Some(10000), None, Prefix(2),
             Some(<<Item(<<"A">>, 30000, <<"u1">>), Item(<<"B">>, 20000, <<"u2">>)>>),
             None, None),
     Request(PERCENTAGE, 10000, Some(1000), Some(2000), None, Prefix(2), None,
             Some(<<Pct("u1", 60000), Pct("u2", 40000)>>), None),
     Request(PERCENTAGE, 10000, None, None, None, Prefix(2), None,
             Some(<<Pct("u1", 60000), Pct("u2", 39500)>>), None),
     Request(CUSTOM, 100000, Some(10000), Some(15000), None, Prefix(2), None, None,
             Some(<<Custom("u1", 70000), Custom("u2", 30000)>>)),
     Request(CUSTOM, 100000, None, None, None, Prefix(2), None, None,
             Some(<<Custom("u1", 60000), Custom("u2", 30000)>>))}

Requests(d) ==
    \/ EqualRequests(d)
    \/ ParticipantRequests(d)
    \/ ExclusivityRequests(d)
    \/ PercentageCoverageRequests(d)
    \/ PercentageToleranceRequests(d)
    \/ PercentageRequests(d)
    \/ CustomCoverageRequests(d)
    \/ CustomToleranceRequests(d)
    \/ CustomRequests(d)
    \/ ItemizedRequests(d)
    \/ ItemShapeRequests(d)
    \/ ScenarioRequests(d)

-----
(* SplitCalculationService.calculateSplit, one action per step *)

\* no participant has been saved and no call served
ParticipantsAtRest == participantRepository = <<>> /\ lastCall = None

\* no payment has been saved and no call started
PaymentsAtRest == paymentRepository = <<>> /\ multiCurrencyPaymentRepository = <<>> /\ calls = <<>>

Init ==
    /\ Requests(dto)
    /\ pc = "start"
    /\ shares = <<>>
    /\ roundingAdjustment = 0
    /\ finalTotal = 0
    /\ result = None
    /\ error = ""
    /\ ParticipantsAtRest
    /\ PaymentsAtRest

\* SplitValidator.validate(dto)
Validate ==
    /\ pc = "start"
    /\ IF validate(dto) = Ok
       THEN pc' = "validated" /\ error' = error
       ELSE pc' = "error" /\ error' = validate(dto)
    /\ UNCHANGED <<dto, shares, roundingAdjustment, finalTotal, result, participantVars, paymentVars>>

\* the switch on dto.splitType
calculateShares(d) ==
    CASE d.splitType = EQUAL -> calculateEqualSplit(d)
      [] d.splitType = ITEMIZED -> calculateItemizedSplit(d)
      [] d.splitType = PERCENTAGE -> calculatePercentageSplit(d)
      [] d.splitType = CUSTOM -> calculateCustomSplit(d)

Allocate ==
    /\ pc = "validated"
    /\ shares' = calculateShares(dto)
    /\ pc' = "allocated"
    /\ UNCHANGED <<dto, roundingAdjustment, finalTotal, result, error, participantVars, paymentVars>>

\* Adjust that hands the shares over without the postcondition check.
Adjust_Unchecked ==
    /\ pc = "allocated"
    /\ LET adjustment == round(SumTotals(shares) - expectedTotal(dto), 1)
       IN /\ roundingAdjustment' = adjustment
          /\ shares' = IF Abs(adjustment) > 1
                       THEN applyRoundingAdjustment(shares, adjustment)
                       ELSE shares
    /\ pc' = "checked"
    /\ UNCHANGED <<dto, finalTotal, result, error, participantVars, paymentVars>>

\* calculatedTotal, expectedTotal, roundingAdjustment and its application
Adjust ==
    /\ pc = "allocated"
    /\ LET adjustment == round(SumTotals(shares) - expectedTotal(dto), 1)
       IN /\ roundingAdjustment' = adjustment
          /\ shares' = IF Abs(adjustment) > 1
                       THEN applyRoundingAdjustment(shares, adjustment)
                       ELSE shares
    /\ pc' = "adjusted"
    /\ UNCHANGED <<dto, finalTotal, result, error, participantVars, paymentVars>>

\* finalTotal and SplitValidator.validateResult
CheckResult ==
    /\ pc = "adjusted"
    /\ finalTotal' = SumTotals(shares)
    /\ IF validateResult(dto, SumTotals(shares), roundingAdjustment) = Ok
       THEN pc' = "checked" /\ error' = error
       ELSE /\ pc' = "error"
            /\ error' = validateResult(dto, SumTotals(shares), roundingAdjustment)
    /\ UNCHANGED <<dto, shares, roundingAdjustment, result, participantVars, paymentVars>>

\* Result that reports the size of the adjustment without its sign.
Result_UnsignedAdjustment(d, s, adjustment) ==
    [splitType |-> d.splitType,
     originalSubtotal |-> d.subtotal,
     originalTax |-> OrZero(d.tax),
     originalTip |-> OrZero(d.tip),
     grandTotal |-> round(expectedTotal(d), 1),
     shares |-> s,
     roundingAdjustment |-> Abs(adjustment)]

\* Result whose grandTotal is the sum of the shares' totals.
Result_GrandTotalFromShares(d, s, adjustment) ==
    [splitType |-> d.splitType,
     originalSubtotal |-> d.subtotal,
     originalTax |-> OrZero(d.tax),
     originalTip |-> OrZero(d.tip),
     grandTotal |-> SumTotals(s),
     shares |-> s,
     roundingAdjustment |-> adjustment]

\* the returned SplitCalculationResultDto
Result(d, s, adjustment) ==
    [splitType |-> d.splitType,
     originalSubtotal |-> d.subtotal,
     originalTax |-> OrZero(d.tax),
     originalTip |-> OrZero(d.tip),
     grandTotal |-> round(expectedTotal(d), 1),
     shares |-> s,
     roundingAdjustment |-> adjustment]

Return ==
    /\ pc = "checked"
    /\ result' = Some(Result(dto, shares, roundingAdjustment))
    /\ pc' = "returned"
    /\ UNCHANGED <<dto, shares, roundingAdjustment, finalTotal, error, participantVars, paymentVars>>

Next == Validate \/ Allocate \/ Adjust \/ CheckResult \/ Return

Spec == Init /\ [][Next]_allVars

\* calculateSplit as a function of the request: the exception's message, or
\* the returned result
calculateSplit(d) ==
    LET invalid == validate(d)
    IN IF invalid # Ok
       THEN [error |-> invalid, result |-> None]
       ELSE LET allocated == calculateShares(d)
                adjustment == round(SumTotals(allocated) - expectedTotal(d), 1)
                adjusted == IF Abs(adjustment) > 1
                            THEN applyRoundingAdjustment(allocated, adjustment)
                            ELSE allocated
                failed == validateResult(d, SumTotals(adjusted), adjustment)
            IN IF failed # Ok
               THEN [error |-> failed, result |-> None]
               ELSE [error |-> "", result |-> Some(Result(d, adjusted, adjustment))]

-----------------------------------------------------------------------------
(* Vocabulary of the properties *)

PostconditionErrors == {TotalMismatch, AdjustmentTooLarge}

\* validate has run and has thrown
Rejected == pc = "error" /\ error \notin PostconditionErrors
\* validate has run and has not thrown
Accepted == pc \notin {"start", "error"} \/ (pc = "error" /\ error \in PostconditionErrors)

CentValued(d) ==
    /\ d.subtotal % Cent = 0
    /\ OrZero(d.tax) % Cent = 0
    /\ OrZero(d.tip) % Cent = 0

\* subtotal + tax + tip of one share, rounded to cents
OwnSum(share) == round(share.subtotal + share.tax + share.tip, 1)

-----------------------------------------------------------------------------
(* Properties *)

\* C1: in every returned result the share totals sum to
\* round(subtotal + tax + tip) within one cent, and to exactly that value
\* (the grandTotal) when subtotal, tax and tip are whole cents.
Conservation ==
    pc = "returned" =>
        LET r == result[1]
            grand == round(dto.subtotal + OrZero(dto.tax) + OrZero(dto.tip), 1)
        IN /\ Abs(SumTotals(r.shares) - grand) <= Cent
           /\ CentValued(dto) => SumTotals(r.shares) = r.grandTotal

\* an itemized result over three participants whose shares needed an adjustment
ConservationWitness ==
    /\ pc = "returned"
    /\ dto.splitType = ITEMIZED
    /\ Len(result[1].shares) = 3
    /\ result[1].roundingAdjustment # 0

\* C2: a request that passed validate never fails validateResult.
NoPostconditionFailure ==
    pc = "error" => error \notin PostconditionErrors

\* C3 as stated: in every returned result every share has
\* total = round(subtotal + tax + tip).
ShareTotalIsOwnSum ==
    pc = "returned" =>
        \A i \in DOMAIN result[1].shares :
            result[1].shares[i].total = OwnSum(result[1].shares[i])

\* C3 as amended: in every returned result every share has
\* total = round(subtotal + tax + tip), except the one share that received a
\* non-zero rounding adjustment, whose total is
\* round(subtotal + tax + tip - roundingAdjustment).
ShareTotalIsOwnSumUnlessAdjusted ==
    pc = "returned" =>
        LET r == result[1]
            off == {i \in DOMAIN r.shares : r.shares[i].total # OwnSum(r.shares[i])}
        IN /\ Cardinality(off) = IF r.roundingAdjustment = 0 THEN 0 ELSE 1
           /\ \A i \in off :
                 r.shares[i].total = round(OwnSum(r.shares[i]) - r.roundingAdjustment, 1)

\* a returned percentage result with tax and tip in which one share was adjusted
ShareTotalWitness ==
    /\ pc = "returned"
    /\ dto.splitType = PERCENTAGE
    /\ result[1].roundingAdjustment # 0
    /\ \E i \in DOMAIN result[1].shares :
          /\ result[1].shares[i].tip > 0
          /\ result[1].shares[i].tax > 0
          /\ result[1].shares[i].total # OwnSum(result[1].shares[i])

\* C4: validate rejects a request that carries the payload of another
\* strategy, and an itemized, percentage or custom request whose own payload
\* is absent or empty.
ForeignPayload(d) ==
    CASE d.splitType = EQUAL -> Has(d.items) \/ Has(d.percentages) \/ Has(d.customAmounts)
      [] d.splitType = ITEMIZED -> Has(d.percentages) \/ Has(d.customAmounts)
      [] d.splitType = PERCENTAGE -> Has(d.items) \/ Has(d.customAmounts)
      [] d.splitType = CUSTOM -> Has(d.items) \/ Has(d.percentages)
OwnPayloadMissing(d) ==
    CASE d.splitType = EQUAL -> FALSE
      [] d.splitType = ITEMIZED -> OrEmpty(d.items) = <<>>
      [] d.splitType = PERCENTAGE -> OrEmpty(d.percentages) = <<>>
      [] d.splitType = CUSTOM -> OrEmpty(d.customAmounts) = <<>>
StrategyExclusivity ==
    (pc # "start" /\ (ForeignPayload(dto) \/ OwnPayloadMissing(dto))) => Rejected

\* a custom request that also carries an (empty) items array was rejected for it
StrategyExclusivityWitness ==
    /\ pc = "error"
    /\ error = CustomExtraPayload
    /\ dto.items = Some(<<>>)
    /\ ~OwnPayloadMissing(dto)

\* C5: validate accepts a percentage (custom) request only if every
\* participant has exactly one entry in percentages (customAmounts) and every
\* entry names a participant.
ExactCover(ids, entries) ==
    /\ \A i \in DOMAIN ids :
          Cardinality({k \in DOMAIN entries : entries[k].participantId = ids[i]}) = 1
    /\ \A k \in DOMAIN entries : entries[k].participantId \in Range(ids)
Coverage ==
    Accepted =>
        /\ dto.splitType = PERCENTAGE => ExactCover(dto.participantIds, OrEmpty(dto.percentages))
        /\ dto.splitType = CUSTOM => ExactCover(dto.participantIds, OrEmpty(dto.customAmounts))

\* a percentage request whose entries sum to 100 but leave a participant out
CoverageWitness ==
    /\ pc = "error"
    /\ error = PercentageMissing
    /\ dto.percentages = Some(<<Pct("u1", Hundred)>>)

\* C6: a request whose participantIds is empty or holds an id twice is
\* rejected by the participant checks, whatever its split type and payload.
ParticipantListChecked ==
    (pc # "start" /\ (dto.participantIds = <<>> \/ HasDuplicates(dto.participantIds)))
        => (pc = "error" /\ error \in {NoParticipants, DuplicateParticipants})

\* a custom request with its payload and a repeated participant was rejected
ParticipantListWitness ==
    /\ pc = "error"
    /\ error = DuplicateParticipants
    /\ dto.splitType = CUSTOM
    /\ Has(dto.customAmounts)
    /\ Len(dto.participantIds) = 3

\* C7: a request with a negative subtotal, tax or tip, or with
\* subtotal + tax + tip <= 0, is rejected; a zero subtotal with non-negative
\* tax and tip, one of them positive, is not rejected by the amount checks.
AmountErrors == {NegativeSubtotal, NegativeTax, NegativeTip, TotalNotPositive}
AmountsChecked ==
    pc # "start" =>
        /\ (\/ dto.subtotal < 0
            \/ (Has(dto.tax) /\ dto.tax[1] < 0)
            \/ (Has(dto.tip) /\ dto.tip[1] < 0)
            \/ dto.subtotal + OrZero(dto.tax) + OrZero(dto.tip) <= 0) => Rejected
        /\ (/\ dto.subtotal = 0
            /\ OrZero(dto.tax) >= 0
            /\ OrZero(dto.tip) >= 0
            /\ OrZero(dto.tax) + OrZero(dto.tip) > 0) => error \notin AmountErrors

\* a request with zero subtotal, no tax and a positive tip went through
AmountsWitness ==
    /\ pc = "returned"
    /\ dto.subtotal = 0
    /\ dto.tax = None
    /\ OrZero(dto.tip) > 0

\* C8: the payload sum may differ from its target (the subtotal, or 100) by
\* at most 0.01: a larger difference is rejected, and the sum check rejects
\* nothing else.
PayloadGap(d) ==
    CASE d.splitType = ITEMIZED ->
            Abs(SumSeq([i \in DOMAIN OrEmpty(d.items) |-> OrEmpty(d.items)[i].price])
                - d.subtotal)
      [] d.splitType = PERCENTAGE ->
            Abs(SumSeq([i \in DOMAIN OrEmpty(d.percentages) |->
                          OrEmpty(d.percentages)[i].percentage]) - Hundred)
      [] d.splitType = CUSTOM ->
            Abs(SumSeq([i \in DOMAIN OrEmpty(d.customAmounts) |->
                          OrEmpty(d.customAmounts)[i].amount]) - d.subtotal)
      [] OTHER -> 0
WellFormedItem(d, item) ==
    /\ trim(item.name) # <<>>
    /\ item.price >= 0
    /\ item.participantIds # <<>>
    /\ ~HasDuplicates(item.participantIds)
    /\ Range(item.participantIds) \subseteq Range(d.participantIds)
ItemRules ==
    (Accepted /\ dto.splitType = ITEMIZED) =>
        \A i \in DOMAIN OrEmpty(dto.items) : WellFormedItem(dto, OrEmpty(dto.items)[i])

\* the second item of a request, named by blanks only, was rejected
ItemRulesWitness ==
    /\ pc = "error"
    /\ error = ItemNameRequired
    /\ Len(OrEmpty(dto.items)) = 2
    /\ dto.items[1][2].name = <<" ">>
    /\ dto.items[1][2].price >= 0
    /\ dto.items[1][2].participantIds = <<"u1", "u2">>

\* C10: a call validates, allocates, adjusts, checks the adjusted sum and
\* returns, in that order; it stops at the first failed validation without a
\* result, a failed precondition leaves no allocation behind, and it always
\* ends either with a result or with a validation error.
OrderInv ==
    /\ pc \in {"start", "validated", "allocated", "adjusted", "checked", "returned", "error"}
    /\ (pc \in {"start", "validated"} \/ Rejected) => shares = <<>>
    /\ pc \in {"checked", "returned"} => finalTotal = SumTotals(shares)
    /\ pc = "returned" <=> result # None
    /\ pc = "error" <=> error # ""
    /\ pc \notin {"returned", "error"} <=> ENABLED Next
OrderStep ==
    /\ pc = "start" => pc' \in {"validated", "error"} /\ (pc' = "validated" <=> validate(dto) = Ok)
    /\ pc = "validated" => pc' = "allocated"
    /\ pc = "allocated" => pc' = "adjusted"
    /\ pc = "adjusted" => pc' \in {"checked", "error"}
    /\ pc = "checked" => pc' = "returned" /\ result'[1].shares = shares
    /\ pc \in {"returned", "error"} => FALSE
CalculationOrder == []OrderInv /\ [][OrderStep]_vars

\* a call that passed validate, allocated and adjusted, and then failed the
\* postcondition without a result
CalculationOrderWitness ==
    /\ pc = "error"
    /\ error = AdjustmentTooLarge
    /\ shares # <<>>
    /\ result = None

\* C11: the adjustment step computes roundingAdjustment from the allocated
\* totals; when it is non-zero it replaces the total of the first share with
\* the largest total by round(total - roundingAdjustment) and changes nothing
\* else, neither another share, nor another field, nor the request; when it
\* is zero it changes no share.
LargestShare(s) ==
    CHOOSE i \in DOMAIN s :
        /\ \A j \in DOMAIN s : s[j].total <= s[i].total
        /\ \A j \in 1..(i - 1) : s[j].total < s[i].total
AdjustmentStep ==
    pc = "allocated" =>
        /\ dto' = dto
        /\ roundingAdjustment' = round(SumTotals(shares) - expectedTotal(dto), 1)
        /\ DOMAIN shares' = DOMAIN shares
        /\ IF Abs(roundingAdjustment') > 1
           THEN \A i \in DOMAIN shares :
                   IF i = LargestShare(shares)
                   THEN /\ shares'[i] = [shares[i] EXCEPT
                                           !.total = round(shares[i].total
                                                           - roundingAdjustment', 1)]
                        /\ shares'[i].total # shares[i].total
                   ELSE shares'[i] = shares[i]
           ELSE shares' = shares
AdjustmentFrame == [][AdjustmentStep]_vars

\* an adjustment went to the second of three shares, the largest one
AdjustmentFrameWitness ==
    /\ pc = "adjusted"
    /\ roundingAdjustment # 0
    /\ Len(shares) = 3
    /\ shares[1].total = OwnSum(shares[1])
    /\ shares[2].total # OwnSum(shares[2])
    /\ shares[3].total = OwnSum(shares[3])

\* C12: the roundingAdjustment of every returned result is the rounded
\* difference between the sum of the shares' own subtotal + tax + tip (their
\* totals before the adjustment) and subtotal + tax + tip of the request, and
\* its magnitude is at most one cent per participant.
AdjustmentBounded ==
    pc = "returned" =>
        LET r == result[1]
            allocated == SumSeq([i \in DOMAIN r.shares |-> OwnSum(r.shares[i])])
        IN /\ r.roundingAdjustment
                = round(allocated - (dto.subtotal + OrZero(dto.tax) + OrZero(dto.tip)), 1)
           /\ Abs(r.roundingAdjustment) <= Cent * Len(dto.participantIds)

\* a result over several participants whose adjustment is exactly one cent
\* per participant
AdjustmentBoundedWitness ==
    /\ pc = "returned"
    /\ Len(dto.participantIds) >= 2
    /\ Abs(result[1].roundingAdjustment) = Cent * Len(dto.participantIds)

\* the shares exist: the strategy has run
Allocated == pc \in {"allocated", "adjusted", "checked", "returned"}

\* C13: under every strategy each share's tax is
\* round(tax * share.subtotal / subtotal), and 0 when the request has no tax
\* or a zero tax or a zero subtotal; so the taxes of any two shares are in
\* the ratio of their subtotals up to half a cent each.
TaxProportional ==
    Allocated =>
        /\ \A i \in DOMAIN shares :
              shares[i].tax =
                  IF OrZero(dto.tax) = 0 \/ dto.subtotal = 0
                  THEN 0
                  ELSE round(OrZero(dto.tax) * shares[i].subtotal, dto.subtotal)
        /\ \A a, b \in DOMAIN shares :
              2 * Abs(shares[a].tax * shares[b].subtotal - shares[b].tax * shares[a].subtotal)
                  <= Cent * (shares[a].subtotal + shares[b].subtotal)

\* an itemized result whose shares have different subtotals and a tax that
\* does not divide evenly
TaxProportionalWitness ==
    /\ pc = "returned"
    /\ dto.splitType = ITEMIZED
    /\ \E a, b \in DOMAIN shares :
          /\ 0 < shares[a].subtotal
          /\ shares[a].subtotal < shares[b].subtotal
          /\ shares[a].tax > 0
          /\ shares[a].tax * dto.subtotal # OrZero(dto.tax) * shares[a].subtotal

\* C14: when the request names the tip mode, Equal gives every share
\* round(tip / participantCount) whatever its subtotal, Proportional gives
\* round(tip * share.subtotal / subtotal), or round(tip / participantCount)
\* when the request's subtotal is 0; with a tip of 0 or no tip every share's
\* tip is 0.
TipDistributed ==
    Allocated =>
        LET tip == OrZero(dto.tip)
            participantCount == Len(dto.participantIds)
        IN \A i \in DOMAIN shares :
              /\ tip = 0 => shares[i].tip = 0
              /\ tip # 0 /\ dto.tipDistribution = Some(EQUAL) =>
                    shares[i].tip = round(tip, participantCount)
              /\ tip # 0 /\ dto.tipDistribution = Some(PROPORTIONAL) =>
                    shares[i].tip = IF dto.subtotal = 0
                                    THEN round(tip, participantCount)
                                    ELSE round(tip * shares[i].subtotal, dto.subtotal)

\* an Equal-mode result whose shares have different subtotals and the same tip
TipDistributedWitness ==
    /\ pc = "returned"
    /\ dto.tipDistribution = Some(EQUAL)
    /\ \E a, b \in DOMAIN shares :
          /\ shares[a].subtotal # shares[b].subtotal
          /\ shares[a].tip = shares[b].tip
          /\ shares[a].tip > 0

\* a Proportional-mode result whose shares have different tips
TipProportionalReached ==
    /\ pc = "returned"
    /\ dto.tipDistribution = Some(PROPORTIONAL)
    /\ \E a, b \in DOMAIN shares : shares[a].tip < shares[b].tip

\* a Proportional-mode result on a zero subtotal: the tip is split equally
TipFallbackReached ==
    /\ pc = "returned"
    /\ dto.tipDistribution = Some(PROPORTIONAL)
    /\ dto.subtotal = 0
    /\ \E a \in DOMAIN shares : shares[a].tip > 0

\* the mode the tip is distributed with: the request's, or the default of
\* the split type
EffectiveTipMode ==
    IF dto.tipDistribution # None THEN dto.tipDistribution[1]
    ELSE IF dto.splitType = EQUAL THEN EQUAL
    ELSE PROPORTIONAL

\* C15: a request without tipDistribution has its tip distributed equally
\* when the split is Equal and proportionally to the share subtotals when it
\* is Itemized, Percentage or Custom; a request with tipDistribution has its
\* tip distributed in that mode whatever the split type.
DefaultTipMode ==
    Allocated /\ OrZero(dto.tip) # 0 =>
        \A i \in DOMAIN shares :
            shares[i].tip =
                IF EffectiveTipMode = EQUAL \/ dto.subtotal = 0
                THEN round(dto.tip[1], Len(dto.participantIds))
                ELSE round(dto.tip[1] * shares[i].subtotal, dto.subtotal)

\* a result of a non-Equal split without tipDistribution whose shares have
\* different tips
DefaultTipModeWitness ==
    /\ pc = "returned"
    /\ dto.tipDistribution = None
    /\ dto.splitType # EQUAL
    /\ \E a, b \in DOMAIN shares :
          /\ shares[a].tip < shares[b].tip
          /\ shares[b].tip # round(dto.tip[1], Len(dto.participantIds))

\* a result of an Equal split without tipDistribution whose equal tip is not
\* the proportional one
DefaultEqualReached ==
    /\ pc = "returned"
    /\ dto.tipDistribution = None
    /\ dto.splitType = EQUAL
    /\ dto.subtotal # 0
    /\ \E a \in DOMAIN shares :
          /\ shares[a].tip > 0
          /\ shares[a].tip # round(dto.tip[1] * shares[a].subtotal, dto.subtotal)

\* a result of a non-Equal split with tipDistribution Equal whose shares
\* have different subtotals
GivenModeReached ==
    /\ pc = "returned"
    /\ dto.tipDistribution = Some(EQUAL)
    /\ dto.splitType # EQUAL
    /\ \E a, b \in DOMAIN shares :
          /\ shares[a].subtotal # shares[b].subtotal
          /\ shares[a].tip > 0
          /\ shares[a].tip # round(dto.tip[1] * shares[a].subtotal, dto.subtotal)

\* subtotal 100, tax 10, tip 15, two participants
EqualScenario ==
    /\ dto.splitType = EQUAL
    /\ dto.subtotal = 100000
    /\ dto.tax = Some(10000)
    /\ dto.tip = Some(15000)
    /\ Len(dto.participantIds) = 2

\* C16: every Equal request that passes validation gives one share per
\* participant, in participant order, each with subtotal
\* round(subtotal / participantCount); subtotal 100, tax 10, tip 15 and two
\* participants give subtotal 50, tax 5, tip 7.5, total 62.5 each and
\* grandTotal 125.
EqualSplit ==
    /\ Allocated /\ dto.splitType = EQUAL =>
          /\ Len(shares) = Len(dto.participantIds)
          /\ \A i \in DOMAIN shares :
                /\ shares[i].participantId = dto.participantIds[i]
                /\ shares[i].subtotal = round(dto.subtotal, Len(dto.participantIds))
    /\ pc = "returned" /\ EqualScenario =>
          /\ result[1].grandTotal = 125000
          /\ \A i \in DOMAIN result[1].shares :
                /\ result[1].shares[i].subtotal = 50000
                /\ result[1].shares[i].tax = 5000
                /\ result[1].shares[i].tip = 7500
                /\ result[1].shares[i].total = 62500

\* an Equal result whose per-participant subtotals were rounded up and do
\* not add up to the request's subtotal
EqualSplitWitness ==
    /\ pc = "returned"
    /\ dto.splitType = EQUAL
    /\ Len(shares) >= 2
    /\ shares[1].subtotal * Len(shares) > dto.subtotal

\* the result of the scenario
EqualScenarioReached == pc = "returned" /\ EqualScenario

\* the items of the request whose participantIds contain the participant
ItemsOf(id) ==
    SelectSeq(OrEmpty(dto.items), LAMBDA item : id \in Range(item.participantIds))

\* the sum of price / |participantIds| over the participant's items, as a
\* numerator over the denominator den
ItemsSum(id, den) ==
    SumSeq([k \in DOMAIN ItemsOf(id) |->
              ItemsOf(id)[k].price * (den \div Len(ItemsOf(id)[k].participantIds))])

\* two items of 30 and 20, one for each of two participants, tax 5, tip 10
ItemizedScenario ==
    /\ dto.splitType = ITEMIZED
    /\ dto.subtotal = 50000
    /\ dto.tax = Some(5000)
    /\ dto.tip = Some(10000)

\* C17: every Itemized request that passes validation gives each participant
\* the subtotal round(sum of price / |participantIds| over the items that
\* list the participant) and, as items, the names of exactly those items in
\* item order; a participant on no item gets subtotal 0 and no items. Items
\* of 30 for u1 and 20 for u2 with tax 5 give subtotals 30 and 20 and taxes 3
\* and 2.
ItemizedSplit ==
    /\ Allocated /\ dto.splitType = ITEMIZED =>
          /\ Len(shares) = Len(dto.participantIds)
          /\ \A i \in DOMAIN shares :
                LET id == dto.participantIds[i]
                    den == Fact(Len(dto.participantIds))
                IN /\ shares[i].participantId = id
                   /\ shares[i].subtotal = round(ItemsSum(id, den), den)
                   /\ shares[i].items = Some([k \in DOMAIN ItemsOf(id) |-> ItemsOf(id)[k].name])
                   /\ ItemsOf(id) = <<>> =>
                         shares[i].subtotal = 0 /\ shares[i].items = Some(<<>>)
    /\ pc = "returned" /\ ItemizedScenario =>
          /\ result[1].shares[1].subtotal = 30000
          /\ result[1].shares[1].tax = 3000
          /\ result[1].shares[1].items = Some(<<(<<"A">>)>>)
          /\ result[1].shares[2].subtotal = 20000
          /\ result[1].shares[2].tax = 2000
          /\ result[1].shares[2].items = Some(<<(<<"B">>)>>)

\* an Itemized result with a shared item, a participant on two items and a
\* participant on none
ItemizedSplitWitness ==
    /\ pc = "returned"
    /\ dto.splitType = ITEMIZED
    /\ \E a, b \in DOMAIN shares :
          /\ Len(shares[a].items[1]) = 2
          /\ shares[b].items = Some(<<>>)
          /\ shares[b].subtotal = 0
          /\ \E k \in DOMAIN dto.items[1] : Len(dto.items[1][k].participantIds) >= 2

\* the result of the scenario
ItemizedScenarioReached == pc = "returned" /\ ItemizedScenario

\* subtotal 100, tax 10, tip 20 at 60% and 40%, on a tenth of the amounts
PercentageScenario ==
    /\ dto.splitType = PERCENTAGE
    /\ dto.subtotal = 10000
    /\ dto.tax = Some(1000)
    /\ dto.tip = Some(2000)

\* C18: every Percentage request that passes validation gives each
\* participant the subtotal round(subtotal * percentage / 100) of the
\* participant's own entry; 60% and 40% of 100 with tax 10 and tip 20 give
\* subtotals 60 and 40, taxes 6 and 4 and grandTotal 130 (here on a tenth of
\* the amounts).
PercentageSplit ==
    /\ Allocated /\ dto.splitType = PERCENTAGE =>
          /\ Len(shares) = Len(dto.participantIds)
          /\ \A i \in DOMAIN shares :
                /\ shares[i].participantId = dto.participantIds[i]
                /\ \E k \in DOMAIN dto.percentages[1] :
                      dto.percentages[1][k].participantId = dto.participantIds[i]
                /\ \A k \in DOMAIN dto.percentages[1] :
                      dto.percentages[1][k].participantId = dto.participantIds[i] =>
                          shares[i].subtotal =
                              round(dto.subtotal * dto.percentages[1][k].percentage, Hundred)
    /\ pc = "returned" /\ PercentageScenario =>
          /\ result[1].grandTotal = 13000
          /\ result[1].shares[1].subtotal = 6000
          /\ result[1].shares[1].tax = 600
          /\ result[1].shares[2].subtotal = 4000
          /\ result[1].shares[2].tax = 400

\* a Percentage result with a subtotal that was rounded
PercentageSplitWitness ==
    /\ pc = "returned"
    /\ dto.splitType = PERCENTAGE
    /\ \E i \in DOMAIN shares, k \in DOMAIN dto.percentages[1] :
          /\ dto.percentages[1][k].participantId = dto.participantIds[i]
          /\ shares[i].subtotal * Hundred # dto.subtotal * dto.percentages[1][k].percentage
          /\ shares[i].subtotal > 0

\* a Percentage result with entries in another order than the participants
PercentageReorderedReached ==
    /\ pc = "returned"
    /\ dto.splitType = PERCENTAGE
    /\ \E i \in DOMAIN shares, k \in DOMAIN dto.percentages[1] :
          /\ i # k
          /\ dto.percentages[1][k].participantId = dto.participantIds[i]
          /\ shares[i].subtotal > 0

\* the result of the scenario
PercentageScenarioReached == pc = "returned" /\ PercentageScenario

\* the custom amount entered for the i-th participant of a validated Custom
\* request (validation leaves exactly one entry per participant)
CustomAmountOf(i) ==
    LET entries == dto.customAmounts[1]
    IN entries[CHOOSE k \in DOMAIN entries :
                  entries[k].participantId = dto.participantIds[i]].amount

\* every share's subtotal is the rounded custom amount of its participant
CustomSubtotals ==
    /\ Len(shares) = Len(dto.participantIds)
    /\ \A i \in DOMAIN shares :
          /\ shares[i].participantId = dto.participantIds[i]
          /\ \E k \in DOMAIN dto.customAmounts[1] :
                dto.customAmounts[1][k].participantId = dto.participantIds[i]
          /\ shares[i].subtotal = round(CustomAmountOf(i), 1)

\* C19, as stated: every Custom request that passes validation gives each
\* participant the subtotal round(custom amount), and a participant whose
\* custom amount is 0 gets subtotal 0, tax 0 and, when the tip is
\* distributed proportionally, tip 0.
CustomSplitZeroTip ==
    Allocated /\ dto.splitType = CUSTOM =>
        /\ CustomSubtotals
        /\ \A i \in DOMAIN shares :
              CustomAmountOf(i) = 0 =>
                  /\ shares[i].subtotal = 0
                  /\ shares[i].tax = 0
                  /\ EffectiveTipMode = PROPORTIONAL => shares[i].tip = 0

\* C19, amended: every Custom request that passes validation gives each
\* participant the subtotal round(custom amount), and a participant whose
\* custom amount is 0 gets subtotal 0, tax 0 and, when the tip is
\* distributed proportionally, tip 0 if the request's subtotal is not 0 and
\* round(tip / participantCount) if it is 0.
CustomSplit ==
    Allocated /\ dto.splitType = CUSTOM =>
        /\ CustomSubtotals
        /\ \A i \in DOMAIN shares :
              CustomAmountOf(i) = 0 =>
                  /\ shares[i].subtotal = 0
                  /\ shares[i].tax = 0
                  /\ EffectiveTipMode = PROPORTIONAL =>
                        shares[i].tip = IF dto.subtotal # 0
                                        THEN 0
                                        ELSE round(OrZero(dto.tip), Len(dto.participantIds))

\* a Custom result with a tip distributed proportionally where one
\* participant has the amount 0 and no tip and another has a tip
CustomSplitWitness ==
    /\ pc = "returned"
    /\ dto.splitType = CUSTOM
    /\ EffectiveTipMode = PROPORTIONAL
    /\ \E a, b \in DOMAIN shares :
          /\ CustomAmountOf(a) = 0
          /\ shares[a].tip = 0
          /\ CustomAmountOf(b) > 0
          /\ shares[b].tip > 0

\* a Custom result on a subtotal of 0 where a participant with the amount 0
\* has a tip and another participant has a positive amount
CustomZeroSubtotalReached ==
    /\ pc = "returned"
    /\ dto.splitType = CUSTOM
    /\ EffectiveTipMode = PROPORTIONAL
    /\ dto.subtotal = 0
    /\ \E a, b \in DOMAIN shares :
          /\ CustomAmountOf(a) = 0
          /\ shares[a].tip > 0
          /\ CustomAmountOf(b) > 0

\* the result of custom amounts 70 and 30 on subtotal 100, tax 10, tip 15
CustomScenarioReached ==
    /\ pc = "returned"
    /\ dto.splitType = CUSTOM
    /\ dto.subtotal = 100000
    /\ dto.tax = Some(10000)
    /\ result[1].grandTotal = 125000
    /\ result[1].shares[1].subtotal = 70000
    /\ result[1].shares[1].tax = 7000
    /\ result[1].shares[2].subtotal = 30000
    /\ result[1].shares[2].tax = 3000

\* a value that equals itself under the rounding function
TwoDecimals(v) == round(v, 1) = v

\* C20: in every returned result each share's subtotal, tax, tip and total
\* is a value rounded to 2 decimal places, the total of the share that
\* received the rounding adjustment included.
SharesRounded ==
    pc = "returned" =>
        \A i \in DOMAIN result[1].shares :
            /\ TwoDecimals(result[1].shares[i].subtotal)
            /\ TwoDecimals(result[1].shares[i].tax)
            /\ TwoDecimals(result[1].shares[i].tip)
            /\ TwoDecimals(result[1].shares[i].total)

\* a result on sub-cent inputs whose adjusted share has a tax and a tip that
\* were rounded
SharesRoundedWitness ==
    /\ pc = "returned"
    /\ ~CentValued(dto)
    /\ result[1].roundingAdjustment # 0
    /\ \E i \in DOMAIN result[1].shares :
          /\ result[1].shares[i].total # OwnSum(result[1].shares[i])
          /\ result[1].shares[i].tax > 0
          /\ result[1].shares[i].tip > 0
          /\ result[1].shares[i].tax * dto.subtotal
                # dto.tax[1] * result[1].shares[i].subtotal

\* C21: every monetary field of the returned result - originalSubtotal,
\* originalTax, originalTip, grandTotal, roundingAdjustment and every share
\* field - is a value rounded to 2 decimal places, also when subtotal, tax
\* or tip carry more than 2 fractional digits.
ResultRounded ==
    pc = "returned" =>
        /\ TwoDecimals(result[1].originalSubtotal)
        /\ TwoDecimals(result[1].originalTax)
        /\ TwoDecimals(result[1].originalTip)
        /\ TwoDecimals(result[1].grandTotal)
        /\ TwoDecimals(result[1].roundingAdjustment)
        /\ \A i \in DOMAIN result[1].shares :
              /\ TwoDecimals(result[1].shares[i].subtotal)
              /\ TwoDecimals(result[1].shares[i].tax)
              /\ TwoDecimals(result[1].shares[i].tip)
              /\ TwoDecimals(result[1].shares[i].total)

\* the fields the engine computes are rounded: only the echoed inputs can
\* carry a third fractional digit
ComputedFieldsRounded ==
    pc = "returned" =>
        /\ TwoDecimals(result[1].grandTotal)
        /\ TwoDecimals(result[1].roundingAdjustment)
        /\ TwoDecimals(result[1].originalSubtotal) <=> TwoDecimals(dto.subtotal)
        /\ TwoDecimals(result[1].originalTax) <=> TwoDecimals(OrZero(dto.tax))
        /\ TwoDecimals(result[1].originalTip) <=> TwoDecimals(OrZero(dto.tip))

\* num / den rounded to the nearest cent, a tie going away from zero
roundAwayFromZero(num, den) ==
    IF num >= 0 THEN round(num, den) ELSE -round(-num, den)

\* the difference the rounding adjustment is computed from: the sum of the
\* unadjusted totals less the expected total
AdjustmentInput ==
    SumSeq([i \in DOMAIN shares |-> OwnSum(shares[i])]) - expectedTotal(dto)

\* C22: the rounding function rounds to the nearest cent with a tie going
\* away from zero for negative values as for positive ones; the signed
\* roundingAdjustment is round(calculatedTotal - expectedTotal) in that
\* sense.
AdjustmentRoundedAwayFromZero ==
    pc \in {"adjusted", "checked", "returned"} =>
        roundingAdjustment = roundAwayFromZero(AdjustmentInput, 1)

\* what the code does: nearest cent, a tie going up (toward +infinity)
AdjustmentRoundedHalfUp ==
    pc \in {"adjusted", "checked", "returned"} =>
        /\ 2 * Abs(roundingAdjustment - AdjustmentInput) <= Cent
        /\ 2 * Abs(roundingAdjustment - AdjustmentInput) = Cent =>
              roundingAdjustment > AdjustmentInput

\* C23: the returned result echoes the request's splitType, subtotal, tax
\* and tip (0 for an absent tax or tip), and its grandTotal is
\* round(subtotal + tax + tip) whatever the split type and the shares.
ResultEchoesRequest ==
    pc = "returned" =>
        /\ result[1].splitType = dto.splitType
        /\ result[1].originalSubtotal = dto.subtotal
        /\ result[1].originalTax = (IF dto.tax = None THEN 0 ELSE dto.tax[1])
        /\ result[1].originalTip = (IF dto.tip = None THEN 0 ELSE dto.tip[1])
        /\ result[1].grandTotal
              = round(dto.subtotal + result[1].originalTax + result[1].originalTip, 1)

\* a result of a request without tax whose grandTotal is not the sum of the
\* shares' totals
ResultEchoesRequestWitness ==
    /\ pc = "returned"
    /\ dto.tax = None
    /\ dto.tip # None
    /\ result[1].originalTax = 0
    /\ result[1].grandTotal > 0
    /\ result[1].grandTotal # SumTotals(result[1].shares)

\* C24: for all four split types the returned shares are one per entry of
\* participantIds, in the same order and with the same participantId, and
\* no share belongs to an id outside participantIds.
OneSharePerParticipant ==
    pc = "returned" =>
        /\ Len(result[1].shares) = Len(dto.participantIds)
        /\ \A i \in DOMAIN result[1].shares :
              result[1].shares[i].participantId = dto.participantIds[i]
        /\ \A id \in Range(dto.participantIds) :
              Cardinality({i \in DOMAIN result[1].shares :
                              result[1].shares[i].participantId = id}) = 1
        /\ \A i \in DOMAIN result[1].shares :
              result[1].shares[i].participantId \in Range(dto.participantIds)

\* a result of a payload that lists the participants in another order than
\* participantIds
OneSharePerParticipantWitness ==
    /\ pc = "returned"
    /\ Len(result[1].shares) >= 2
    /\ dto.percentages # None
    /\ \E k \in DOMAIN dto.percentages[1] :
          dto.percentages[1][k].participantId # dto.participantIds[k]

\* a result of several shares for a split type
SharesReturned(t) == pc = "returned" /\ dto.splitType = t /\ Len(result[1].shares) >= 2
EqualSharesReached == SharesReturned(EQUAL)
ItemizedSharesReached == SharesReturned(ITEMIZED)
CustomSharesReached == SharesReturned(CUSTOM)

-----------------------------------------------------------------------------
(* ParticipantsService: create and update over the participants table.   *)
(* Amounts are in mills, as above.                                         *)

PENDING == "pending"
PARTIAL == "partial"
PAID == "paid"
PaymentStatus == {PENDING, PARTIAL, PAID}

\* the splits splitRepository.findOne finds
Splits == {"s1"}
\* the split ids of the calls: one that exists and one that does not
SplitIds == {"s1", "s9"}
\* the amounts of the calls: 0, 0.004, 0.01 and 0.02
ParticipantAmounts == {0, 4, 10, 20}

calculatePaymentStatus(amountOwed, amountPaid) ==
    IF amountPaid = 0 THEN PENDING
    ELSE IF amountPaid >= amountOwed THEN PAID
    ELSE PARTIAL

\* a decimal(10, 2) column keeps a non-negative amount rounded to 2 places
decimalColumn(amount) == Cent * ((2 * amount + Cent) \div (2 * Cent))

\* participantRepository.save: the row the table holds for the entity; an
\* amountPaid that was never set takes the column's default 0
save(participant) ==
    [id |-> participant.id,
     splitId |-> participant.splitId,
     amountOwed |-> decimalColumn(participant.amountOwed),
     amountPaid |-> decimalColumn(OrZero(participant.amountPaid)),
     paymentStatus |-> participant.paymentStatus]

\* the call that was served, as the properties read it
Call(op, id, amountOwed, amountPaid, outcome) ==
    Some([op |-> op, id |-> id, amountOwed |-> amountOwed, amountPaid |-> amountPaid, outcome |-> outcome])

\* ParticipantsService.create(createParticipantDto)
create ==
    /\ Len(participantRepository) < MaxSaved
    /\ \E splitId \in SplitIds, amountOwed \in ParticipantAmounts,
          amountPaid \in {None} \cup {Some(a) : a \in ParticipantAmounts},
          given \in {None, Some(PAID)} :
          IF splitId \notin Splits
          THEN /\ lastCall' = Call("create", 0, Some(amountOwed), amountPaid, "NotFound")
               /\ UNCHANGED participantRepository
          ELSE LET paymentStatus == calculatePaymentStatus(amountOwed, OrZero(amountPaid))
                   participant == [id |-> Len(participantRepository) + 1,
                                   splitId |-> splitId,
                                   amountOwed |-> amountOwed,
                                   amountPaid |-> amountPaid,
                                   paymentStatus |-> paymentStatus]
               IN /\ participantRepository' = Append(participantRepository, save(participant))
                  /\ lastCall' = Call("create", participant.id, Some(amountOwed), amountPaid, "saved")
    /\ UNCHANGED <<vars, paymentVars>>

\* ParticipantsService.update(id, updateParticipantDto)
update ==
    /\ \E id \in 1..(MaxSaved + 1), splitId \in {None} \cup {Some(x) : x \in SplitIds},
          amountOwed \in {None} \cup {Some(a) : a \in ParticipantAmounts},
          amountPaid \in {None} \cup {Some(a) : a \in ParticipantAmounts},
          given \in {None, Some(PAID)} :
          IF id \notin DOMAIN participantRepository
          THEN /\ lastCall' = Call("update", id, amountOwed, amountPaid, "NotFound")
               /\ UNCHANGED participantRepository
          ELSE LET participant == participantRepository[id]
               IN IF /\ Has(splitId)
                     /\ splitId[1] # participant.splitId
                     /\ splitId[1] \notin Splits
                  THEN /\ lastCall' = Call("update", id, amountOwed, amountPaid, "NotFound")
                       /\ UNCHANGED participantRepository
                  ELSE LET paymentStatus ==
                               IF Has(amountOwed) \/ Has(amountPaid)
                               THEN calculatePaymentStatus(
                                        IF Has(amountOwed) THEN amountOwed[1] ELSE participant.amountOwed,
                                        IF Has(amountPaid) THEN amountPaid[1] ELSE participant.amountPaid)
                               ELSE participant.paymentStatus
                           assigned ==
                               [id |-> participant.id,
                                splitId |-> IF Has(splitId) THEN splitId[1] ELSE participant.splitId,
                                amountOwed |-> IF Has(amountOwed) THEN amountOwed[1] ELSE participant.amountOwed,
                                amountPaid |-> IF Has(amountPaid) THEN amountPaid ELSE Some(participant.amountPaid),
                                paymentStatus |-> paymentStatus]
                       IN /\ participantRepository' = [participantRepository EXCEPT ![id] = save(assigned)]
                          /\ lastCall' = Call("update", id, amountOwed, amountPaid, "saved")
    /\ UNCHANGED <<vars, paymentVars>>

\* no calculateSplit call is in progress
SplitAtRest ==
    /\ dto = None
    /\ pc = "idle"
    /\ shares = <<>>
    /\ roundingAdjustment = 0
    /\ finalTotal = 0
    /\ result = None
    /\ error = ""

ParticipantsInit == SplitAtRest /\ ParticipantsAtRest /\ PaymentsAtRest

ParticipantsNext == create \/ update

\* any sequence of create and update calls
ParticipantsSpec == ParticipantsInit /\ [][ParticipantsNext]_allVars

\* the status the claim derives from a saved participant's amounts
DerivedStatus(participant) ==
    IF participant.amountPaid = 0 THEN PENDING
    ELSE IF participant.amountPaid >= participant.amountOwed THEN PAID
    ELSE PARTIAL

\* every saved participant has the status derived from its saved amounts
StatusDerived ==
    \A i \in DOMAIN participantRepository :
        participantRepository[i].paymentStatus = DerivedStatus(participantRepository[i])

\* an update that passes neither amount keeps the participant's status
UpdateWithoutAmounts ==
    /\ lastCall' # lastCall
    /\ lastCall'[1].op = "update"
    /\ lastCall'[1].outcome = "saved"
    /\ lastCall'[1].amountOwed = None
    /\ lastCall'[1].amountPaid = None
    => participantRepository'[lastCall'[1].id].paymentStatus
          = participantRepository[lastCall'[1].id].paymentStatus

\* an update that passes an amount saves the status of the merged amounts
UpdateWithAmounts ==
    /\ lastCall' # lastCall
    /\ lastCall'[1].op = "update"
    /\ lastCall'[1].outcome = "saved"
    /\ lastCall'[1].amountOwed # None \/ lastCall'[1].amountPaid # None
    => participantRepository'[lastCall'[1].id].paymentStatus
          = DerivedStatus(participantRepository'[lastCall'[1].id])

\* C25: after any sequence of create and update calls every saved
\* participant's paymentStatus is the one derived from its current amounts
\* (PENDING when amountPaid = 0, PAID when amountPaid is not 0 and
\* >= amountOwed, PARTIAL otherwise); an update that changes neither amount
\* leaves the status unchanged and one that changes either recomputes it
\* from the merged amounts.
PaymentStatusDerived ==
    /\ []StatusDerived
    /\ [][UpdateWithoutAmounts /\ UpdateWithAmounts]_participantVars

\* what the code keeps: the saved status is the one computed from the
\* amounts as they were passed, before the column rounded them; it is the
\* derived one whenever the call's amounts are whole cents
StatusOfPassedAmounts ==
    [][/\ UpdateWithoutAmounts
       /\ \A i \in DOMAIN participantRepository' :
             /\ lastCall' # lastCall
             /\ lastCall'[1].outcome = "saved"
             /\ lastCall'[1].id = i
             /\ lastCall'[1].amountOwed \in {None, Some(0), Some(10), Some(20)}
             /\ lastCall'[1].amountPaid \in {None, Some(0), Some(10), Some(20)}
             /\ lastCall'[1].amountOwed # None \/ lastCall'[1].amountPaid # None
             => participantRepository'[i].paymentStatus
                   = DerivedStatus(participantRepository'[i])]_participantVars

\* C26: in every returned result every share's subtotal, tax, tip and total
\* is >= 0; the share that takes a positive rounding adjustment does not end
\* with a negative total.
SharesNonNegative ==
    pc = "returned" =>
        \A i \in DOMAIN result[1].shares :
            /\ result[1].shares[i].subtotal >= 0
            /\ result[1].shares[i].tax >= 0
            /\ result[1].shares[i].tip >= 0
            /\ result[1].shares[i].total >= 0

\* what the code keeps: subtotal, tax and tip are never negative, and a
\* total is negative only on the share that took a positive adjustment
OnlyAdjustedTotalNegative ==
    pc = "returned" =>
        \A i \in DOMAIN result[1].shares :
            /\ result[1].shares[i].subtotal >= 0
            /\ result[1].shares[i].tax >= 0
            /\ result[1].shares[i].tip >= 0
            /\ result[1].shares[i].total < 0 =>
                  /\ result[1].roundingAdjustment > 0
                  /\ result[1].shares[i].total # OwnSum(result[1].shares[i])

\* the orders a list can be put in
PermutationsOf(ids) ==
    {[i \in DOMAIN ids |-> ids[f[i]]] :
        f \in {g \in [DOMAIN ids -> DOMAIN ids] : \A i, j \in DOMAIN ids : g[i] = g[j] => i = j}}

\* the request with its participants in another order, payload unchanged
Permuted(ids) == [dto EXCEPT !.participantIds = ids]

\* the share of a participant in a result
ShareOf(r, id) == r.shares[CHOOSE i \in DOMAIN r.shares : r.shares[i].participantId = id]

\* the call is over
Finished == pc \in {"returned", "error"}

\* the function agrees with the steps of the call
FunctionAgrees ==
    Finished => /\ calculateSplit(dto).result = result
                /\ calculateSplit(dto).error = error

\* against the outcome of the permuted request: the same accept/reject
\* outcome, grandTotal and roundingAdjustment, and for each participant the
\* same subtotal, tax and tip
PermutationKeeps(other) ==
    /\ (other.result = None) <=> (result = None)
    /\ result # None =>
          LET r == other.result[1]
          IN /\ r.grandTotal = result[1].grandTotal
             /\ r.roundingAdjustment = result[1].roundingAdjustment
             /\ \A id \in Range(dto.participantIds) :
                   LET mine == ShareOf(result[1], id)
                       theirs == ShareOf(r, id)
                   IN /\ theirs.subtotal = mine.subtotal
                      /\ theirs.tax = mine.tax
                      /\ theirs.tip = mine.tip

\* several shares have the largest unadjusted total
LargestTied(r) ==
    \E i, j \in DOMAIN r.shares :
        /\ i # j
        /\ OwnSum(r.shares[i]) = OwnSum(r.shares[j])
        /\ \A k \in DOMAIN r.shares : OwnSum(r.shares[k]) <= OwnSum(r.shares[i])

\* the first of the shares with the largest unadjusted total
FirstLargest(r) ==
    CHOOSE i \in DOMAIN r.shares :
        /\ \A k \in DOMAIN r.shares : OwnSum(r.shares[k]) <= OwnSum(r.shares[i])
        /\ \A k \in 1..(i - 1) : OwnSum(r.shares[k]) < OwnSum(r.shares[i])

\* C27, as stated: permuting participantIds, payload unchanged, gives the
\* same accept/reject outcome, the same grandTotal and roundingAdjustment
\* and for each participantId the same subtotal, tax, tip and total.
OrderIrrelevant ==
    Finished =>
        \A ids \in PermutationsOf(dto.participantIds) :
            LET other == calculateSplit(Permuted(ids))
            IN /\ PermutationKeeps(other)
               /\ result # None =>
                     \A id \in Range(dto.participantIds) :
                         ShareOf(other.result[1], id).total = ShareOf(result[1], id).total

\* C27, amended: the same, except that the totals are the same only when
\* the adjustment is 0 or one share alone has the largest unadjusted total;
\* when several tie for it the adjustment goes to the one that comes first
\* in participantIds, and every other participant keeps the unadjusted
\* total subtotal + tax + tip in both orders.
OrderIrrelevantUpToTies ==
    Finished =>
        \A ids \in PermutationsOf(dto.participantIds) :
            LET other == calculateSplit(Permuted(ids))
            IN /\ PermutationKeeps(other)
               /\ result # None =>
                     LET r == other.result[1]
                         first == FirstLargest(r)
                     IN /\ result[1].roundingAdjustment = 0 \/ ~LargestTied(result[1]) =>
                              \A k \in DOMAIN r.shares :
                                  r.shares[k].total = ShareOf(result[1], r.shares[k].participantId).total
                        /\ result[1].roundingAdjustment # 0 =>
                              \A k \in DOMAIN r.shares :
                                  IF k = first
                                  THEN r.shares[k].total # OwnSum(r.shares[k])
                                  ELSE r.shares[k].total = OwnSum(r.shares[k])

\* a result with a non-zero adjustment on shares of different totals, whose
\* largest share is not the first participant
OrderIrrelevantWitness ==
    /\ pc = "returned"
    /\ Len(dto.participantIds) >= 2
    /\ result[1].roundingAdjustment # 0
    /\ ~LargestTied(result[1])
    /\ result[1].shares[1].total = OwnSum(result[1].shares[1])

\* C28: in every returned result the sum over the shares of
\* subtotal + tax + tip, less roundingAdjustment, is the sum of the shares'
\* totals: roundingAdjustment is exactly the amount by which the one
\* adjusted share's total differs from its own subtotal + tax + tip, and it
\* is 0 exactly when no share was adjusted.
AuditIdentity ==
    pc = "returned" =>
        LET r == result[1]
            adjustedShares == {i \in DOMAIN r.shares : r.shares[i].total # OwnSum(r.shares[i])}
        IN /\ SumSeq([i \in DOMAIN r.shares |-> OwnSum(r.shares[i])]) - r.roundingAdjustment
                 = SumSeq([i \in DOMAIN r.shares |-> r.shares[i].total])
           /\ Cardinality(adjustedShares) <= 1
           /\ \A i \in adjustedShares :
                 OwnSum(r.shares[i]) - r.shares[i].total = r.roundingAdjustment
           /\ (r.roundingAdjustment = 0) <=> (adjustedShares = {})

\* a result with a negative adjustment: the adjusted share's total is above
\* its own subtotal + tax + tip
AuditIdentityWitness ==
    /\ pc = "returned"
    /\ result[1].roundingAdjustment < 0
    /\ Len(result[1].shares) >= 2
    /\ \E i \in DOMAIN result[1].shares :
          result[1].shares[i].total > OwnSum(result[1].shares[i])

\* C29: in an Equal split all shares have the same subtotal, tax and tip in
\* either tip mode, so the totals tie before the adjustment, and a non-zero
\* rounding adjustment is applied to the first participant of
\* participantIds and to no other.
EqualSplitAdjustsFirst ==
    dto.splitType = EQUAL =>
        /\ Allocated =>
              \A i, j \in DOMAIN shares :
                  /\ shares[i].subtotal = shares[j].subtotal
                  /\ shares[i].tax = shares[j].tax
                  /\ shares[i].tip = shares[j].tip
        /\ pc = "allocated" =>
              \A i, j \in DOMAIN shares : shares[i].total = shares[j].total
        /\ pc \in {"adjusted", "checked", "returned"} /\ roundingAdjustment # 0 =>
              /\ shares[1].participantId = dto.participantIds[1]
              /\ shares[1].total = round(OwnSum(shares[1]) - roundingAdjustment, 1)
              /\ shares[1].total # OwnSum(shares[1])
              /\ \A i \in 2..Len(shares) : shares[i].total = OwnSum(shares[i])

\* an Equal result of three shares with an explicit proportional tip where
\* the first share took the adjustment
EqualSplitAdjustsFirstWitness ==
    /\ pc = "returned"
    /\ dto.splitType = EQUAL
    /\ dto.tipDistribution = Some(PROPORTIONAL)
    /\ Len(shares) = 3
    /\ roundingAdjustment # 0
    /\ shares[1].tip > 0
    /\ shares[1].total # shares[2].total
    /\ shares[2].total = shares[3].total


-----------------------------------------------------------------------------
\* MultiCurrencyService.processMultiCurrencyPayment. The method is async: it
\* runs to its next await, and the calls in progress take turns there.

TxHashes == {"h1", "h2"}
Assets == {"XLM", "USDC"}
PaidAmounts == {50}
\* the participants a payment names: the first is saved, the second is not
PayerIds == {1, 2}

\* Split.preferredCurrency, 'XLM' unless the split says otherwise
preferredCurrency(splitId) == "XLM"

\* the participant that was saved before the payments arrive
SavedPayer ==
    save([id |-> 1, splitId |-> "s1", amountOwed |-> 20, amountPaid |-> None, paymentStatus |-> PENDING])

areAssetsEqual(asset1, asset2) == asset1 = asset2

\* generateId() draws a random string: each call gets an id of its own
generateId(c) == c

\* repository.findOne({ where: { txHash } }): the first row that matches
findOneByTxHash(txHash) ==
    LET hits == {i \in DOMAIN paymentRepository : paymentRepository[i].txHash = txHash}
    IN IF hits = {} THEN None
       ELSE Some(paymentRepository[CHOOSE i \in hits : \A j \in hits : i <= j])

\* repository.save of a created entity inserts a row; the rows are keyed by id
insert(repository, entity) == Append(repository, entity)

\* rate and destination amount of the path that was found
BestRate == 2

Resume(c, fields) ==
    calls' = [calls EXCEPT ![c] = [k \in DOMAIN calls[c] |-> IF k \in DOMAIN fields THEN fields[k] ELSE calls[c][k]]]

\* a call starts: params are destructured and the split lookup is awaited
processMultiCurrencyPayment ==
    /\ Len(calls) < MaxCalls
    /\ \E splitId \in SplitIds, participantId \in PayerIds, txHash \in TxHashes, paidAsset \in Assets, paidAmount \in PaidAmounts :
          /\ splitId \in Splits \/ participantId = 1
          /\ calls' = Append(calls, [pc |-> "findSplit",
                                     splitId |-> splitId,
                                     participantId |-> participantId,
                                     txHash |-> txHash,
                                     paidAsset |-> paidAsset,
                                     paidAmount |-> paidAmount,
                                     targetAsset |-> "",
                                     requiresConversion |-> FALSE,
                                     receivedAmount |-> paidAmount,
                                     exchangeRate |-> 1,
                                     payment |-> None,
                                     outcome |-> ""])
    /\ UNCHANGED <<vars, participantVars, paymentRepository, multiCurrencyPaymentRepository>>

\* splitRepository.findOne resolves
findSplit ==
    /\ \E c \in DOMAIN calls :
          /\ calls[c].pc = "findSplit"
          /\ IF calls[c].splitId \notin Splits
             THEN Resume(c, [pc |-> "thrown", outcome |-> "NotFound"])
             ELSE Resume(c, [pc |-> "findParticipant"])
    /\ UNCHANGED <<vars, participantVars, paymentRepository, multiCurrencyPaymentRepository>>

\* participantRepository.findOne resolves; the target asset is determined
findParticipant ==
    /\ \E c \in DOMAIN calls :
          /\ calls[c].pc = "findParticipant"
          /\ LET found == \E i \in DOMAIN participantRepository :
                              /\ participantRepository[i].id = calls[c].participantId
                              /\ participantRepository[i].splitId = calls[c].splitId
                 targetAsset == preferredCurrency(calls[c].splitId)
                 requiresConversion == ~areAssetsEqual(calls[c].paidAsset, targetAsset)
             IN IF ~found
                THEN Resume(c, [pc |-> "thrown", outcome |-> "NotFound"])
                ELSE Resume(c, [pc |-> IF requiresConversion THEN "getBestExchangeRate" ELSE "findPayment",
                                targetAsset |-> targetAsset,
                                requiresConversion |-> requiresConversion])
    /\ UNCHANGED <<vars, participantVars, paymentRepository, multiCurrencyPaymentRepository>>

\* exchangeRateTracker.getBestExchangeRate resolves with a rate, or rejects
getBestExchangeRate ==
    /\ \E c \in DOMAIN calls :
          /\ calls[c].pc = "getBestExchangeRate"
          /\ \/ Resume(c, [pc |-> "findPayment",
                           exchangeRate |-> BestRate,
                           receivedAmount |-> calls[c].paidAmount * BestRate])
             \/ Resume(c, [pc |-> "thrown", outcome |-> "NoRate"])
    /\ UNCHANGED <<vars, participantVars, paymentRepository, multiCurrencyPaymentRepository>>

\* paymentRepository.findOne resolves; when no row has the txHash, a payment
\* is created and its save is awaited
findPayment ==
    /\ \E c \in DOMAIN calls :
          /\ calls[c].pc = "findPayment"
          /\ LET payment == findOneByTxHash(calls[c].txHash)
             IN IF Has(payment)
                THEN Resume(c, [pc |-> "trackExchangeRate", payment |-> payment])
                ELSE Resume(c, [pc |-> "savePayment",
                                payment |-> Some([id |-> generateId(c),
                                                  splitId |-> calls[c].splitId,
                                                  participantId |-> calls[c].participantId,
                                                  txHash |-> calls[c].txHash,
                                                  amount |-> calls[c].receivedAmount,
                                                  asset |-> calls[c].targetAsset,
                                                  status |-> "confirmed"])])
    /\ UNCHANGED <<vars, participantVars, paymentRepository, multiCurrencyPaymentRepository>>

\* paymentRepository.save resolves: the created payment is a row now
savePayment ==
    /\ \E c \in DOMAIN calls :
          /\ calls[c].pc = "savePayment"
          /\ paymentRepository' = insert(paymentRepository, calls[c].payment[1])
          /\ Resume(c, [pc |-> "trackExchangeRate"])
    /\ UNCHANGED <<vars, participantVars, multiCurrencyPaymentRepository>>

\* exchangeRateTracker.trackExchangeRate resolves and the call returns
trackExchangeRate ==
    /\ \E c \in DOMAIN calls :
          /\ calls[c].pc = "trackExchangeRate"
          /\ multiCurrencyPaymentRepository' =
                insert(multiCurrencyPaymentRepository,
                       [id |-> Len(multiCurrencyPaymentRepository) + 1,
                        paymentId |-> calls[c].payment[1].id,
                        paidAsset |-> calls[c].paidAsset,
                        paidAmount |-> calls[c].paidAmount,
                        receivedAsset |-> calls[c].targetAsset,
                        receivedAmount |-> calls[c].receivedAmount,
                        exchangeRate |-> calls[c].exchangeRate,
                        pathPaymentTxHash |-> IF calls[c].requiresConversion THEN Some(calls[c].txHash) ELSE None])
          /\ Resume(c, [pc |-> "returned", outcome |-> "success"])
    /\ UNCHANGED <<vars, participantVars, paymentRepository>>

PaymentsInit ==
    /\ SplitAtRest
    /\ participantRepository = <<SavedPayer>>
    /\ lastCall = None
    /\ PaymentsAtRest

PaymentsNext ==
    \/ processMultiCurrencyPayment
    \/ findSplit
    \/ findParticipant
    \/ getBestExchangeRate
    \/ findPayment
    \/ savePayment
    \/ trackExchangeRate

PaymentsSpec == PaymentsInit /\ [][PaymentsNext]_allVars

\* C30: however the calls of processMultiCurrencyPayment that carry one txHash
\* interleave, the saved payments hold at most one row with that txHash.
AtMostOnePaymentPerTxHash ==
    \A i, j \in DOMAIN paymentRepository :
        paymentRepository[i].txHash = paymentRepository[j].txHash => i = j

\* the calls so far ran one after the other: only the last may be unfinished
OneAtATime ==
    \A c \in DOMAIN calls : c < Len(calls) => calls[c].pc \in {"returned", "thrown"}

\* calls that never overlap do keep one payment per txHash
SequentialCallsKeepOnePayment == []OneAtATime => []AtMostOnePaymentPerTxHash

\* the second of two sequential calls found the payment of the first
SecondCallFoundPayment ==
    /\ Len(calls) = 2
    /\ calls[1].pc = "returned"
    /\ calls[2].pc = "returned"
    /\ calls[1].txHash = calls[2].txHash
    /\ Len(paymentRepository) = 1
    /\ calls[2].payment = Some(paymentRepository[1])

=============================================================================
